---- MODULE Spec2Model ----
(***************************************************************************)
(* Model of scripts/vibecut_frame_scanner.py: one invocation of main()     *)
(* (Spec, FairSpec), and of scripts/vibecut_moviepy_pipeline.py: one       *)
(* invocation of its main() (PipelineSpec).  The two scripts are separate  *)
(* processes; pc, stdout and exit_code are those of the process modelled.  *)
(*                                                                         *)
(* Number representation (all exact, integer):                             *)
(*   - sample ratios are in hundredths (10 means 0.1);                     *)
(*   - edge densities and the centred-face ratio are in halves (0..2);     *)
(*   - motion values are in quarters (0..4);                               *)
(*   - per-frame scores and emitted signals are in 1/10000 (4 decimals);   *)
(*   - a timestamp is the double nearest to n/d, kept as the pair          *)
(*     [n |-> frame index, d |-> divisor]; the rounding error of that      *)
(*     double is recomputed from n and d by binary long division;          *)
(*   - emitted motion peaks are in hundredths of a second (2 decimals);    *)
(*   - pipeline durations and segment bounds are in milliseconds, segment  *)
(*     speeds in thousandths (3 decimals).                                 *)
(***************************************************************************)
EXTENDS Integers, Sequences, FiniteSets, TLC

VARIABLES env, sample_ratio_arg,
          pc, cap, sample_count, sample_stride, sampled_frames,
          portrait_score_total, landscape_score_total, centered_face_total,
          horizontal_motion_total, motion_values, motion_timestamps,
          prev_gray, frame_index, visited, peak_pairs, unique_peaks,
          stdout, exit_code,
          job, segments, clip_paths, built_clips

vars == <<env, sample_ratio_arg,
          pc, cap, sample_count, sample_stride, sampled_frames,
          portrait_score_total, landscape_score_total, centered_face_total,
          horizontal_motion_total, motion_values, motion_timestamps,
          prev_gray, frame_index, visited, peak_pairs, unique_peaks,
          stdout, exit_code,
          job, segments, clip_paths, built_clips>>

\* the state of the pipeline process
pipeline_vars == <<job, segments, clip_paths, built_clips>>

scan_vars == <<sample_count, sample_stride, sampled_frames,
               portrait_score_total, landscape_score_total, centered_face_total,
               horizontal_motion_total, motion_values, motion_timestamps,
               prev_gray, frame_index, visited, peak_pairs, unique_peaks>>

-----------------------------------------------------------------------------
(* Bounds of the explored input space.                                     *)

\* frame counts -1..MaxFrames are all explored
MaxFrames == 8
\* scans visiting at most MaxVisits indices see arbitrary frames
MaxVisits == 5
\* longer scans see a static source with at most MaxFailures failed reads
MaxFailures == 1
\* no scan visiting more than MaxLongVisits indices is explored
MaxLongVisits == 30
\* --segments-json lists of at most MaxItems items are explored
MaxItems == 4
\* the fair specification explores scans of at most MaxFairFrames frames
MaxFairFrames == 7

-----------------------------------------------------------------------------
(* Helpers.                                                                *)

Max(a, b) == IF a >= b THEN a ELSE b

Min(a, b) == IF a <= b THEN a ELSE b

Abs(a) == IF a >= 0 THEN a ELSE -a

RECURSIVE Pow2(_)
Pow2(k) == IF k = 0 THEN 1 ELSE 2 * Pow2(k - 1)

RECURSIVE SumSeq(_)
SumSeq(s) == IF s = <<>> THEN 0 ELSE Head(s) + SumSeq(Tail(s))

\* clamp(value, low, high): max(low, min(high, value))
clamp(value, low, high) == Max(low, Min(high, value))

-----------------------------------------------------------------------------
(* Emitted payloads.                                                       *)

\* variant: -1 as the "unknown" marker of the signals that default to 0.0
fallback_payload_sentinel ==
    [sampledFrames |-> 0, sampleStride |-> 0,
     portraitSignal |-> 5000, landscapeSignal |-> 5000,
     centeredFaceVerticalSignal |-> -1, horizontalMotionSignal |-> -1,
     highMotionShortClipSignal |-> -1, motionPeaks |-> <<>>]

fallback_payload ==
    [sampledFrames |-> 0, sampleStride |-> 0,
     portraitSignal |-> 5000, landscapeSignal |-> 5000,
     centeredFaceVerticalSignal |-> 0, horizontalMotionSignal |-> 0,
     highMotionShortClipSignal |-> 0, motionPeaks |-> <<>>]

-----------------------------------------------------------------------------
(* Sampler: lines 65-67.                                                   *)

\* variant: every non-positive ratio falls back to the default
RatioOrDefaultNonPositive(r) == IF r <= 0 THEN 10 ELSE r

\* float(args.sample_ratio or 0.1): a ratio of 0 is falsy and becomes 0.1
RatioOrDefault(r) == IF r = 0 THEN 10 ELSE r

SampleRatio(r) == clamp(RatioOrDefault(r), 1, 50)

\* max(1, int(total_frames * sample_ratio))
SampleCount(n, r) == Max(1, (n * SampleRatio(r)) \div 100)

\* max(1, total_frames // sample_count)
SampleStride(n, r) == Max(1, n \div SampleCount(n, r))

\* number of loop iterations of "while frame_index < total_frames"
NumVisits(n, r) == (n + SampleStride(n, r) - 1) \div SampleStride(n, r)

-----------------------------------------------------------------------------
(* Python floats (IEEE doubles) for timestamps: lines 148, 174, 194.       *)

\* fps = float(cap.get(CAP_PROP_FPS) or 30.0): a reported 0 becomes 30.0
FpsOrDefault(f) == IF f = 0 THEN 30 ELSE f

\* variant: the divisor without its max(1.0, .) guard
TimestampDivisorUnguarded(f) == IF f = 0 THEN 30 ELSE f

\* max(1.0, fps)
TimestampDivisor(f) == Max(1, FpsOrDefault(f))

\* frame_index / max(1.0, fps), the double nearest to n/d
Timestamp(index, f) == [n |-> index, d |-> TimestampDivisor(f)]

\* j = a + 6 where 2^a <= n/d < 2^(a+1), for n/d >= 2^-6
RECURSIVE BiasedExp(_, _, _)
BiasedExp(n, d, j) ==
    IF n * 64 < Pow2(j + 1) * d THEN j ELSE BiasedExp(n, d, j + 1)

\* (r * 2^k) mod d by repeated doubling
RECURSIVE MulPow2Mod(_, _, _)
MulPow2Mod(r, k, d) ==
    IF k = 0 THEN r % d ELSE MulPow2Mod((2 * r) % d, k - 1, d)

\* double(n/d) - n/d in units of ulp/d, ulp = 2^(a-52): the 53-bit
\* quotient is rounded to nearest
FloatErr(n, d) ==
    IF n = 0 THEN 0
    ELSE LET rho == MulPow2Mod(n, 58 - BiasedExp(n, d, 0), d)
         IN  IF 2 * rho < d THEN -rho ELSE d - rho

\* the same error in units of 2^-58 / d
FloatErrScaled(n, d) ==
    IF n = 0 THEN 0 ELSE FloatErr(n, d) * Pow2(BiasedExp(n, d, 0))

\* abs(ts - existing) < 4.5 on doubles.  The subtraction is rounded to
\* nearest: when the quotients differ by exactly 4.5 the result is below
\* 4.5 iff the two rounding errors sum to less than -2^-51.
WithinPeakGap(ts, existing) ==
    LET d  == ts.d
        dn == Abs(ts.n - existing.n)
        hi == Max(ts.n, existing.n)
        lo == Min(ts.n, existing.n)
    IN  IF 2 * dn # 9 * d
        THEN 2 * dn < 9 * d
        ELSE FloatErrScaled(hi, d) - FloatErrScaled(lo, d) < -(128 * d)

\* round(value, 2) in hundredths: the exact binary value is rounded, so at
\* a decimal tie of n/d the sign of the double's error decides
Round2(ts) ==
    LET k == (100 * ts.n) \div ts.d
    IN  IF (200 * ts.n) % (2 * ts.d) = ts.d
        THEN IF FloatErr(ts.n, ts.d) > 0 THEN k + 1
             ELSE IF FloatErr(ts.n, ts.d) < 0 THEN k
             ELSE IF k % 2 = 0 THEN k ELSE k + 1
        ELSE (200 * ts.n + ts.d) \div (2 * ts.d)

-----------------------------------------------------------------------------
(* Frame feature extractor: lines 91-145.  A frame is what the decode,     *)
(* edge and face capabilities return for it.                               *)

\* solid-colour landscape frame equal to its predecessor
StaticFrame ==
    [portrait |-> FALSE, left |-> 0, right |-> 0, top |-> 0, bottom |-> 0,
     center |-> 0, faces |-> <<>>, motion |-> 0, band |-> 0]

\* portrait frame, no face, some edges, a quarter of full motion
PlainFrame ==
    [portrait |-> TRUE, left |-> 1, right |-> 1, top |-> 2, bottom |-> 0,
     center |-> 1, faces |-> <<>>, motion |-> 1, band |-> 1]

\* portrait frame, edges on the left, two faces (one centred), full motion
BusyFrame ==
    [portrait |-> TRUE, left |-> 2, right |-> 0, top |-> 2, bottom |-> 2,
     center |-> 2,
     faces |-> <<[cx |-> 50, cy |-> 50], [cx |-> 10, cy |-> 50]>>,
     motion |-> 4, band |-> 4]

\* portrait frame, no face, edges everywhere, three quarters of full motion
DenseFrame ==
    [portrait |-> TRUE, left |-> 2, right |-> 2, top |-> 2, bottom |-> 2,
     center |-> 2, faces |-> <<>>, motion |-> 3, band |-> 3]

\* solid-colour portrait frame equal to its predecessor
BlankFrame ==
    [portrait |-> TRUE, left |-> 0, right |-> 0, top |-> 0, bottom |-> 0,
     center |-> 0, faces |-> <<>>, motion |-> 0, band |-> 0]

FrameKinds == {StaticFrame, PlainFrame, BusyFrame, DenseFrame, BlankFrame}

\* 0.28 * w <= cx <= 0.72 * w and 0.18 * h <= cy <= 0.8 * h, in percent
FaceHit(face) ==
    /\ 28 <= face.cx /\ face.cx <= 72
    /\ 18 <= face.cy /\ face.cy <= 80

\* centered_face in halves
CenteredFace(faces) ==
    IF Len(faces) > 0
    THEN LET hits == Cardinality({i \in 1..Len(faces) : FaceHit(faces[i])})
         IN  clamp((2 * hits) \div Max(1, Len(faces)), 0, 2)
    ELSE 0

PortraitBias(frame) == IF frame.portrait THEN 1 ELSE 0

LandscapeBias(frame) == IF frame.portrait THEN 0 ELSE 1

\* variant: the top and bottom densities summed, not averaged
PortraitScoreEdgesSummed(frame) ==
      3800 * (IF frame.portrait THEN 1 ELSE 0)
    + 1300 * frame.center
    + 1100 * CenteredFace(frame.faces)
    + 700 * (frame.top + frame.bottom)

\* portrait_score in 1/10000
PortraitScore(frame) ==
      3800 * PortraitBias(frame)
    + 1300 * frame.center
    + 1100 * CenteredFace(frame.faces)
    + 350 * (frame.top + frame.bottom)

\* landscape_score in 1/10000
LandscapeScore(frame) ==
      4200 * LandscapeBias(frame)
    + 675 * (frame.left + frame.right)
    + 900 * Abs(frame.left - frame.right)
    + 650 * (2 - CenteredFace(frame.faces))

\* motion_value: 0.0 unless a previous frame is retained
MotionValue(frame, prev) == IF prev # <<>> THEN frame.motion ELSE 0

\* variant: the band term is added for the first frame as well
HorizontalMotionUnguarded(frame, prev) == frame.band

\* the term added to horizontal_motion_total
HorizontalMotion(frame, prev) == IF prev # <<>> THEN frame.band ELSE 0

-----------------------------------------------------------------------------
(* Motion peak detector: lines 159-178.                                    *)

RECURSIVE SumSq(_)
SumSq(s) == IF s = <<>> THEN 0 ELSE Head(s) * Head(s) + SumSq(Tail(s))

\* n * (v - mean)
Deviation(v, values) == Len(values) * v - SumSeq(values)

\* n^2 * variance (population)
Variance(values) ==
    Len(values) * SumSq(values) - SumSeq(values) * SumSeq(values)

\* variant: peak candidacy with > in place of >=
AtLeastThresholdStrict(v, values) ==
    /\ Len(values) * v - SumSeq(values) > 0
    /\ 16 * (Len(values) * v - SumSeq(values))
          * (Len(values) * v - SumSeq(values)) > 9 * Variance(values)

\* v >= mean + 0.75 * std, squared to stay exact
AtLeastThreshold(v, values) ==
    /\ Deviation(v, values) >= 0
    /\ 16 * Deviation(v, values) * Deviation(v, values) >= 9 * Variance(values)

\* v > mean + 0.75 * std
AboveThreshold(v, values) ==
    /\ Deviation(v, values) > 0
    /\ 16 * Deviation(v, values) * Deviation(v, values) > 9 * Variance(values)

\* number of entries of motion_array > high_motion_threshold
HighMotionCount(values) ==
    Cardinality({i \in 1..Len(values) : AboveThreshold(values[i], values)})

\* the list comprehension building peak_pairs, from position idx on
RECURSIVE PeakPairs(_, _, _)
PeakPairs(values, timestamps, idx) ==
    IF idx > Len(values) THEN <<>>
    ELSE (IF AtLeastThreshold(values[idx], values)
          THEN <<[ts |-> timestamps[idx], score |-> values[idx]]>>
          ELSE <<>>)
         \o PeakPairs(values, timestamps, idx + 1)

\* the pairs of score at most level, by score descending, pairs of equal
\* score in their original order
RECURSIVE ByScoreFrom(_, _)
ByScoreFrom(pairs, level) ==
    IF level < 0 THEN <<>>
    ELSE SelectSeq(pairs, LAMBDA pair : pair.score = level)
         \o ByScoreFrom(pairs, level - 1)

\* the pairs in reverse order
RECURSIVE ReversePairs(_)
ReversePairs(pairs) ==
    IF pairs = <<>> THEN <<>>
    ELSE Append(ReversePairs(Tail(pairs)), Head(pairs))

\* variant: descending, pairs of equal score in reverse temporal order
SortByScoreLatestFirst(pairs) == ByScoreFrom(ReversePairs(pairs), 4)

\* peak_pairs.sort(key=score, reverse=True): stable, descending; a score
\* is a motion value, 0..4 in quarters
SortByScore(pairs) == ByScoreFrom(pairs, 4)

\* variant: the greedy loop without its 4.5 s test
RECURSIVE UniquePeaksNoGap(_, _)
UniquePeaksNoGap(pairs, unique) ==
    IF pairs = <<>> THEN unique
    ELSE IF Len(unique) + 1 >= 6
         THEN Append(unique, Head(pairs).ts)
         ELSE UniquePeaksNoGap(Tail(pairs), Append(unique, Head(pairs).ts))

\* the greedy loop over the sorted pairs, with its break at 6
RECURSIVE UniquePeaks(_, _)
UniquePeaks(pairs, unique) ==
    IF pairs = <<>> THEN unique
    ELSE LET ts == Head(pairs).ts
         IN  IF \E i \in 1..Len(unique) : WithinPeakGap(ts, unique[i])
             THEN UniquePeaks(Tail(pairs), unique)
             ELSE IF Len(unique) + 1 >= 6
                  THEN Append(unique, ts)
                  ELSE UniquePeaks(Tail(pairs), Append(unique, ts))

-----------------------------------------------------------------------------
(* Result builder: lines 180-195.                                          *)

\* round(num / den, 4) in 1/10000 for num already in 1/10000; at a decimal
\* tie the error of the double decides, so both neighbours are possible
Round4(num, den) ==
    IF (2 * num) % (2 * den) = den
    THEN {num \div den, num \div den + 1}
    ELSE {(2 * num + den) \div (2 * den)}

\* clamp(total / den, 0.0, 1.0), as a numerator over den
ClampUnit(total, den) == clamp(total, 0, 10000 * den)

PortraitSignal(total, sampled) == Round4(ClampUnit(total, sampled), sampled)

LandscapeSignal(total, sampled) == Round4(ClampUnit(total, sampled), sampled)

CenteredFaceSignal(total, sampled) ==
    Round4(ClampUnit(5000 * total, sampled), sampled)

HorizontalMotionSignal(total, sampled) ==
    Round4(ClampUnit(2500 * total, Max(1, sampled - 1)), Max(1, sampled - 1))

\* clamp(high_motion_ratio * 1.35, 0.0, 1.0)
HighMotionSignal(values) ==
    Round4(ClampUnit(13500 * HighMotionCount(values), Len(values)), Len(values))

\* [round(value, 2) for value in unique_peaks]
RECURSIVE RoundPeaks(_)
RoundPeaks(peaks) ==
    IF peaks = <<>> THEN <<>>
    ELSE <<Round2(Head(peaks))>> \o RoundPeaks(Tail(peaks))

\* variant: sampledFrames counts the visited indices, decoded or not
PayloadsCountingVisits(peaks) ==
    {[sampledFrames |-> Len(visited), sampleStride |-> sample_stride,
      portraitSignal |-> p, landscapeSignal |-> l,
      centeredFaceVerticalSignal |-> c, horizontalMotionSignal |-> h,
      highMotionShortClipSignal |-> m,
      motionPeaks |-> RoundPeaks(peaks)] :
        p \in PortraitSignal(portrait_score_total, sampled_frames),
        l \in LandscapeSignal(landscape_score_total, sampled_frames),
        c \in CenteredFaceSignal(centered_face_total, sampled_frames),
        h \in HorizontalMotionSignal(horizontal_motion_total, sampled_frames),
        m \in HighMotionSignal(motion_values)}

\* the payload of lines 186-195 for the de-duplicated peaks
Payloads(peaks) ==
    {[sampledFrames |-> sampled_frames, sampleStride |-> sample_stride,
      portraitSignal |-> p, landscapeSignal |-> l,
      centeredFaceVerticalSignal |-> c, horizontalMotionSignal |-> h,
      highMotionShortClipSignal |-> m,
      motionPeaks |-> RoundPeaks(peaks)] :
        p \in PortraitSignal(portrait_score_total, sampled_frames),
        l \in LandscapeSignal(landscape_score_total, sampled_frames),
        c \in CenteredFaceSignal(centered_face_total, sampled_frames),
        h \in HorizontalMotionSignal(horizontal_motion_total, sampled_frames),
        m \in HighMotionSignal(motion_values)}

-----------------------------------------------------------------------------
(* vibecut_moviepy_pipeline.py, parse_segments: lines 19-37.  The raw      *)
(* --segments-json string is represented by what json.loads makes of it.   *)

\* an item that is not a dict (a number): skipped at lines 28-29
NumberItem == [kind |-> "number"]

\* 0.2 s long: dropped at lines 33-34
ShortItem ==
    [kind |-> "dict", numeric |-> TRUE,
     start |-> 1000, end |-> 1200, speed |-> 0]

\* 2 s .. 9 s, no "speed" key
MidItem ==
    [kind |-> "dict", numeric |-> TRUE,
     start |-> 2000, end |-> 9000, speed |-> 0]

\* 25 s .. 30 s, speed 3.0
LateItem ==
    [kind |-> "dict", numeric |-> TRUE,
     start |-> 25000, end |-> 30000, speed |-> 3000]

\* "start" is a string float() rejects
TextItem ==
    [kind |-> "dict", numeric |-> FALSE,
     start |-> 0, end |-> 3000, speed |-> 0]

Items == {NumberItem, ShortItem, MidItem, LateItem, TextItem}

\* what --segments-json can hold: text json.loads rejects, a JSON object,
\* a JSON list of items
JsonValues ==
    {[kind |-> "malformed", items |-> <<>>],
     [kind |-> "object", items |-> <<>>]}
    \cup {[kind |-> "list", items |-> items] :
             items \in UNION {[1..n -> Items] : n \in 0..MaxItems}}

\* lines 20-23 and 25-26: the list the loop of line 27 iterates over
ParsedItems(raw) == IF raw.kind = "list" THEN raw.items ELSE <<>>

\* the dict items, the only ones that reach line 30
DictItems(raw) == SelectSeq(ParsedItems(raw), LAMBDA item : item.kind = "dict")

\* float() raises at line 30 on a value that is not a number
ParseRaises(raw) ==
    \E i \in 1..Len(DictItems(raw)) : ~DictItems(raw)[i].numeric

\* lines 30-32 and 35; a missing or zero speed is 1.0
SegmentOf(item, duration) ==
    [kind |-> "dict",
     start |-> clamp(item.start, 0, duration),
     end |-> clamp(item.end, 0, duration),
     speed |-> clamp(IF item.speed = 0 THEN 1000 ELSE item.speed, 1000, 1800)]

\* lines 27-35: the segments appended to out, in input order
RECURSIVE KeptSegments(_, _)
KeptSegments(items, duration) ==
    IF items = <<>> THEN <<>>
    ELSE LET segment == SegmentOf(Head(items), duration)
         IN  (IF segment.end - segment.start < 350 THEN <<>> ELSE <<segment>>)
             \o KeptSegments(Tail(items), duration)

\* the first position of rows holding the least start
FirstLeastStart(rows) ==
    CHOOSE i \in 1..Len(rows) :
        /\ \A j \in 1..Len(rows) : rows[i].start <= rows[j].start
        /\ \A j \in 1..(i - 1) : rows[j].start > rows[i].start

\* out.sort(key=start): stable, ascending
RECURSIVE SortByStart(_)
SortByStart(rows) ==
    IF rows = <<>> THEN <<>>
    ELSE LET i == FirstLeastStart(rows)
         IN  <<rows[i]>>
             \o SortByStart(SubSeq(rows, 1, i - 1)
                            \o SubSeq(rows, i + 1, Len(rows)))

\* parse_segments(raw, duration) when it returns
parse_segments(raw, duration) ==
    SortByStart(KeptSegments(DictItems(raw), duration))

-----------------------------------------------------------------------------
(* vibecut_moviepy_pipeline.py, the inputs of main(): lines 86-96, 112-113 *)

\* source.duration in milliseconds; 0 stands for None and 0.0
DurationValues == {0, 5000, 30000}

ModeValues == {"vertical", "horizontal"}

\* exists: the input path exists; importable: moviepy imports; opens:
\* VideoFileClip opens the input; writes: the moviepy calls that cut, fit
\* and write a clip succeed.  At most one of them is false.
Jobs ==
    {j \in [exists : BOOLEAN, importable : BOOLEAN, opens : BOOLEAN,
            writes : BOOLEAN, duration : DurationValues, mode : ModeValues,
            segments_json : JsonValues] :
        Cardinality({f \in {"exists", "importable", "opens", "writes"} :
                        ~j[f]}) <= 1}

\* no pipeline is running
PipelineIdle ==
    /\ job = [exists |-> FALSE, importable |-> FALSE, opens |-> FALSE,
              writes |-> FALSE, duration |-> 0, mode |-> "vertical",
              segments_json |-> [kind |-> "malformed", items |-> <<>>]]
    /\ segments = <<>>
    /\ clip_paths = <<>>
    /\ built_clips = <<>>

-----------------------------------------------------------------------------
(* Inputs: the file system, the decode capability and the command line.    *)

FrameCountValues == (-1..MaxFrames) \cup {25, 100, 190, 300}

FpsValues == {-1, 0, 2, 40}

WidthValues == {0, 640}

HeightValues == {0, 480}

\* --sample-ratio in hundredths, inside and outside [0.01, 0.5]
SampleRatioValues == {-5, 0, 1, 10, 11, 20, 50, 90}

Environments ==
    [exists : BOOLEAN, importable : BOOLEAN, opens : BOOLEAN,
     frame_count : FrameCountValues, fps : FpsValues,
     width : WidthValues, height : HeightValues]

\* total_frames = int(cap.get(CAP_PROP_FRAME_COUNT) or 0)
total_frames == env.frame_count

\* the visits of this scan, from the sampler's stride
PlannedVisits == NumVisits(total_frames, sample_ratio_arg)

\* visits so far that failed to decode
FailuresSoFar == Cardinality({i \in 1..Len(visited) : ~visited[i].ok})

\* a short source returns any frame; a long one is static
FrameAllowed(frame) == PlannedVisits <= MaxVisits \/ frame = StaticFrame

\* a short source may fail at any read; a long one at MaxFailures reads
FailureAllowed == PlannedVisits <= MaxVisits \/ FailuresSoFar < MaxFailures

Init ==
    /\ env \in Environments
    /\ sample_ratio_arg \in SampleRatioValues
    /\ env.frame_count > 0 =>
           NumVisits(env.frame_count, sample_ratio_arg) <= MaxLongVisits
    /\ pc = "start"
    /\ cap = "none"
    /\ sample_count = 0
    /\ sample_stride = 0
    /\ sampled_frames = 0
    /\ portrait_score_total = 0
    /\ landscape_score_total = 0
    /\ centered_face_total = 0
    /\ horizontal_motion_total = 0
    /\ motion_values = <<>>
    /\ motion_timestamps = <<>>
    /\ prev_gray = <<>>
    /\ frame_index = 0
    /\ visited = <<>>
    /\ peak_pairs = <<>>
    /\ unique_peaks = <<>>
    /\ stdout = <<>>
    /\ exit_code = -1
    /\ PipelineIdle

-----------------------------------------------------------------------------
(* main(): lines 32-198.                                                   *)

\* print(json.dumps(payload)); return 0
Emit(payload) ==
    /\ stdout' = Append(stdout, payload)
    /\ exit_code' = 0
    /\ pc' = "done"

\* lines 38-41: the input path does not exist
MissingInput ==
    /\ pc = "start"
    /\ UNCHANGED pipeline_vars
    /\ ~env.exists
    /\ Emit(fallback_payload)
    /\ UNCHANGED <<env, sample_ratio_arg, cap, scan_vars>>

\* lines 43-48: importing cv2 / numpy raises
ImportFails ==
    /\ pc = "start"
    /\ UNCHANGED pipeline_vars
    /\ env.exists
    /\ ~env.importable
    /\ Emit(fallback_payload)
    /\ UNCHANGED <<env, sample_ratio_arg, cap, scan_vars>>

\* lines 50-53: VideoCapture is constructed but not opened
OpenFails ==
    /\ pc = "start"
    /\ UNCHANGED pipeline_vars
    /\ env.exists
    /\ env.importable
    /\ ~env.opens
    /\ cap' = "acquired"
    /\ Emit(fallback_payload)
    /\ UNCHANGED <<env, sample_ratio_arg, scan_vars>>

\* lines 50-63: the stream opens with a non-positive count or dimension
BadMetadata ==
    /\ pc = "start"
    /\ UNCHANGED pipeline_vars
    /\ env.exists
    /\ env.importable
    /\ env.opens
    /\ total_frames <= 0 \/ env.width <= 0 \/ env.height <= 0
    /\ cap' = "released"
    /\ Emit(fallback_payload)
    /\ UNCHANGED <<env, sample_ratio_arg, scan_vars>>

\* lines 50-81: the stream opens, the stride is computed, the loop starts
BeginScan ==
    /\ pc = "start"
    /\ UNCHANGED pipeline_vars
    /\ env.exists
    /\ env.importable
    /\ env.opens
    /\ ~(total_frames <= 0 \/ env.width <= 0 \/ env.height <= 0)
    /\ cap' = "acquired"
    /\ sample_count' = SampleCount(total_frames, sample_ratio_arg)
    /\ sample_stride' = SampleStride(total_frames, sample_ratio_arg)
    /\ sampled_frames' = 0
    /\ portrait_score_total' = 0
    /\ landscape_score_total' = 0
    /\ centered_face_total' = 0
    /\ horizontal_motion_total' = 0
    /\ motion_values' = <<>>
    /\ motion_timestamps' = <<>>
    /\ prev_gray' = <<>>
    /\ frame_index' = 0
    /\ pc' = "scan"
    /\ UNCHANGED <<env, sample_ratio_arg, visited, peak_pairs, unique_peaks,
                   stdout, exit_code>>

\* variant: a failed index is retried without advancing
NextIndexAfterFailureStuck(index, stride) == index

\* variant: a failed index is retried at the next frame
NextIndexAfterFailureByOne(index, stride) == index + 1

\* line 87: frame_index += sample_stride
NextIndexAfterFailure(index, stride) == index + stride

\* line 151: frame_index += sample_stride
NextIndex(index, stride) == index + stride

\* lines 83-88: cap.read() fails at frame_index
DecodeFailure ==
    /\ pc = "scan"
    /\ UNCHANGED pipeline_vars
    /\ frame_index < total_frames
    /\ FailureAllowed
    /\ frame_index' = NextIndexAfterFailure(frame_index, sample_stride)
    /\ visited' = Append(visited, [index |-> frame_index, ok |-> FALSE,
                                    frame |-> <<>>])
    /\ UNCHANGED <<env, sample_ratio_arg, pc, cap, sample_count, sample_stride,
                   sampled_frames, portrait_score_total, landscape_score_total,
                   centered_face_total, horizontal_motion_total, motion_values,
                   motion_timestamps, prev_gray, peak_pairs, unique_peaks,
                   stdout, exit_code>>

\* lines 83-151: cap.read() returns frame at frame_index
SampleFrame(frame) ==
    /\ pc = "scan"
    /\ UNCHANGED pipeline_vars
    /\ frame_index < total_frames
    /\ FrameAllowed(frame)
    /\ sampled_frames' = sampled_frames + 1
    /\ portrait_score_total' = portrait_score_total + PortraitScore(frame)
    /\ landscape_score_total' = landscape_score_total + LandscapeScore(frame)
    /\ centered_face_total' = centered_face_total + CenteredFace(frame.faces)
    /\ horizontal_motion_total' =
           horizontal_motion_total + HorizontalMotion(frame, prev_gray)
    /\ motion_values' = Append(motion_values, MotionValue(frame, prev_gray))
    /\ motion_timestamps' =
           Append(motion_timestamps, Timestamp(frame_index, env.fps))
    /\ prev_gray' = <<frame_index>>
    /\ frame_index' = NextIndex(frame_index, sample_stride)
    /\ visited' = Append(visited, [index |-> frame_index, ok |-> TRUE,
                                    frame |-> frame])
    /\ UNCHANGED <<env, sample_ratio_arg, pc, cap, sample_count, sample_stride,
                   peak_pairs, unique_peaks, stdout, exit_code>>

Sample == \E frame \in FrameKinds : SampleFrame(frame)

\* variant: the empty pass reports the stride it had computed
EmptyScanPayloadWithStride(stride) ==
    [fallback_payload EXCEPT !.sampleStride = stride]

\* the payload printed after a pass that decoded nothing
EmptyScanPayload(stride) == fallback_payload

\* lines 153-157: the loop ends with no sampled frame
FinishEmpty ==
    /\ pc = "scan"
    /\ UNCHANGED pipeline_vars
    /\ ~(frame_index < total_frames)
    /\ sampled_frames <= 0
    /\ cap' = "released"
    /\ Emit(EmptyScanPayload(sample_stride))
    /\ UNCHANGED <<env, sample_ratio_arg, scan_vars>>

\* lines 153-198: the loop ends, the signals are built and printed
Finish ==
    /\ pc = "scan"
    /\ UNCHANGED pipeline_vars
    /\ ~(frame_index < total_frames)
    /\ ~(sampled_frames <= 0)
    /\ cap' = "released"
    /\ peak_pairs' = SortByScore(PeakPairs(motion_values, motion_timestamps, 1))
    /\ unique_peaks' = UniquePeaks(peak_pairs', <<>>)
    /\ \E payload \in Payloads(unique_peaks') : Emit(payload)
    /\ UNCHANGED <<env, sample_ratio_arg, sample_count, sample_stride,
                   sampled_frames, portrait_score_total, landscape_score_total,
                   centered_face_total, horizontal_motion_total, motion_values,
                   motion_timestamps, prev_gray, frame_index, visited>>

Next ==
    \/ MissingInput
    \/ ImportFails
    \/ OpenFails
    \/ BadMetadata
    \/ BeginScan
    \/ DecodeFailure
    \/ Sample
    \/ FinishEmpty
    \/ Finish

Spec == Init /\ [][Next]_vars

\* the inputs of the fair specification: scans of at most MaxFairFrames
\* frames
FairInit == Init /\ env.frame_count <= MaxFairFrames

\* the process is single-threaded and runs to its return
FairSpec == FairInit /\ [][Next]_vars /\ WF_vars(Next)

TypeOK ==
    /\ pc \in {"start", "scan", "done"}
    /\ cap \in {"none", "acquired", "released"}
    /\ Len(stdout) <= 1

-----------------------------------------------------------------------------
(* vibecut_moviepy_pipeline.py, main(): lines 86-179.                      *)

\* the process has not started the scanner
ScannerIdle ==
    /\ env = [exists |-> FALSE, importable |-> FALSE, opens |-> FALSE,
              frame_count |-> 0, fps |-> 0, width |-> 0, height |-> 0]
    /\ sample_ratio_arg = 10
    /\ cap = "none"
    /\ sample_count = 0
    /\ sample_stride = 0
    /\ sampled_frames = 0
    /\ portrait_score_total = 0
    /\ landscape_score_total = 0
    /\ centered_face_total = 0
    /\ horizontal_motion_total = 0
    /\ motion_values = <<>>
    /\ motion_timestamps = <<>>
    /\ prev_gray = <<>>
    /\ frame_index = 0
    /\ visited = <<>>
    /\ peak_pairs = <<>>
    /\ unique_peaks = <<>>

PipelineInit ==
    /\ ScannerIdle
    /\ job \in Jobs
    /\ segments = <<>>
    /\ clip_paths = <<>>
    /\ built_clips = <<>>
    /\ pc = "start"
    /\ stdout = <<>>
    /\ exit_code = -1

\* {"ok": False, "error": error, "clipPaths": []}
Failure(error) == [ok |-> FALSE, error |-> error, clipPaths |-> <<>>]

\* lines 98-100
PipelineMissingInput ==
    /\ pc = "start"
    /\ ~job.exists
    /\ Emit(Failure("missing_input"))
    /\ UNCHANGED <<env, sample_ratio_arg, cap, scan_vars, pipeline_vars>>

\* lines 102-106
PipelineImportFails ==
    /\ pc = "start"
    /\ job.exists
    /\ ~job.importable
    /\ Emit(Failure("moviepy_import_failed"))
    /\ UNCHANGED <<env, sample_ratio_arg, cap, scan_vars, pipeline_vars>>

\* lines 112, 166-168: VideoFileClip raises
SourceOpenFails ==
    /\ pc = "start"
    /\ job.exists
    /\ job.importable
    /\ ~job.opens
    /\ Emit(Failure("pipeline_failed"))
    /\ UNCHANGED <<env, sample_ratio_arg, cap, scan_vars, pipeline_vars>>

\* lines 113-116
InvalidDuration ==
    /\ pc = "start"
    /\ job.exists
    /\ job.importable
    /\ job.opens
    /\ job.duration <= 0
    /\ Emit(Failure("invalid_duration"))
    /\ UNCHANGED <<env, sample_ratio_arg, cap, scan_vars, pipeline_vars>>

\* lines 118, 166-168: parse_segments raises
ParseFails ==
    /\ pc = "start"
    /\ job.exists
    /\ job.importable
    /\ job.opens
    /\ ~(job.duration <= 0)
    /\ ParseRaises(job.segments_json)
    /\ Emit(Failure("pipeline_failed"))
    /\ UNCHANGED <<env, sample_ratio_arg, cap, scan_vars, pipeline_vars>>

\* line 120: the default segment, a tuple (0.0, min(duration, 20.0))
DefaultSegment(duration) ==
    [kind |-> "tuple", first |-> 0, second |-> Min(duration, 20000)]

\* lines 119-120
SegmentsOrDefault(parsed, duration) ==
    IF parsed = <<>> THEN <<DefaultSegment(duration)>> ELSE parsed

\* lines 122-123: segments[:3] in vertical mode
VerticalLimit(rows, mode) ==
    IF mode = "vertical" THEN SubSeq(rows, 1, Min(3, Len(rows))) ELSE rows

\* lines 118-125: the segments to render are chosen
SelectSegments ==
    /\ pc = "start"
    /\ job.exists
    /\ job.importable
    /\ job.opens
    /\ ~(job.duration <= 0)
    /\ ~ParseRaises(job.segments_json)
    /\ segments' =
           VerticalLimit(
               SegmentsOrDefault(parse_segments(job.segments_json, job.duration),
                                 job.duration),
               job.mode)
    /\ clip_paths' = <<>>
    /\ built_clips' = <<>>
    /\ pc' = "render"
    /\ UNCHANGED <<env, sample_ratio_arg, cap, scan_vars, job, stdout,
                   exit_code>>

\* segment["start"], segment["end"], segment.get("speed", 1.0) at lines
\* 127-129 need a dict: on a tuple, indexing by a string raises TypeError
Subscriptable(segment) == segment.kind = "dict"

\* lines 126-148: one iteration of the loop renders clip_{idx:02d}.mp4
RenderClip ==
    /\ pc = "render"
    /\ Len(built_clips) < Len(segments)
    /\ Subscriptable(segments[Len(built_clips) + 1])
    /\ job.writes
    /\ clip_paths' = Append(clip_paths, Len(built_clips) + 1)
    /\ built_clips' = Append(built_clips, segments[Len(built_clips) + 1])
    /\ UNCHANGED <<env, sample_ratio_arg, cap, scan_vars, job, segments, pc,
                   stdout, exit_code>>

\* lines 126-148, 166-168: an iteration of the loop raises
RenderRaises ==
    /\ pc = "render"
    /\ Len(built_clips) < Len(segments)
    /\ ~Subscriptable(segments[Len(built_clips) + 1]) \/ ~job.writes
    /\ Emit(Failure("pipeline_failed"))
    /\ UNCHANGED <<env, sample_ratio_arg, cap, scan_vars, pipeline_vars>>

\* lines 150-179: the clips are concatenated and the result is printed
Report ==
    /\ pc = "render"
    /\ ~(Len(built_clips) < Len(segments))
    /\ Emit([ok |-> TRUE, clipPaths |-> clip_paths,
             combinedPath |-> "combined.mp4"])
    /\ UNCHANGED <<env, sample_ratio_arg, cap, scan_vars, pipeline_vars>>

PipelineNext ==
    \/ PipelineMissingInput
    \/ PipelineImportFails
    \/ SourceOpenFails
    \/ InvalidDuration
    \/ ParseFails
    \/ SelectSegments
    \/ RenderClip
    \/ RenderRaises
    \/ Report

PipelineSpec == PipelineInit /\ [][PipelineNext]_vars

-----------------------------------------------------------------------------
(* Vocabulary of the properties.                                           *)

Done == pc = "done"

\* BeginScan has run: the stride is computed and the loop entered
ScanStarted == pc = "scan" \/ (pc = "done" /\ sample_stride > 0)

\* the printed result is one built from sampled frames
NormalResult == Done /\ Len(stdout) = 1 /\ stdout[1].sampledFrames > 0

\* the visits that decoded, in order
DecodedVisits == SelectSeq(visited, LAMBDA v : v.ok)

InUnitRange(x) == 0 <= x /\ x <= 10000

AllZero(values) == \A i \in 1..Len(values) : values[i] = 0

\* the frames that decoded, in order
SampledFrames == [k \in 1..Len(DecodedVisits) |-> DecodedVisits[k].frame]

\* every sampled frame is taller than wide and shows no face
PurePortraitNoFace ==
    /\ sampled_frames >= 1
    /\ \A k \in 1..Len(SampledFrames) :
           SampledFrames[k].portrait /\ Len(SampledFrames[k].faces) = 0

\* the position in the motion series of the sample taken at timestamp ts
SampleAt(ts) ==
    CHOOSE i \in 1..Len(motion_timestamps) : motion_timestamps[i] = ts

\* the sampled positions whose value is at least mean + 0.75 * std
Candidates ==
    {i \in 1..Len(motion_values) :
        AtLeastThreshold(motion_values[i], motion_values)}

\* the first position of the motion series holding its maximum
EarliestMax ==
    CHOOSE i \in 1..Len(motion_values) :
        /\ \A j \in 1..Len(motion_values) : motion_values[j] <= motion_values[i]
        /\ \A j \in 1..(i - 1) : motion_values[j] < motion_values[i]

\* the k-th pair of the sorted candidates was accepted as a peak
Accepted(k) ==
    \E a \in 1..Len(unique_peaks) : unique_peaks[a] = peak_pairs[k].ts

\* the loop reached the k-th sorted pair before its break
Examined(k) == Cardinality({j \in 1..(k - 1) : Accepted(j)}) < 6

-----------------------------------------------------------------------------
(* C1: every signal field of every emitted result, fallback or normal,     *)
(* lies in [0,1] inclusive.                                                *)
C1_SignalsInUnitRange ==
    \A i \in 1..Len(stdout) :
        /\ InUnitRange(stdout[i].portraitSignal)
        /\ InUnitRange(stdout[i].landscapeSignal)
        /\ InUnitRange(stdout[i].centeredFaceVerticalSignal)
        /\ InUnitRange(stdout[i].horizontalMotionSignal)
        /\ InUnitRange(stdout[i].highMotionShortClipSignal)

\* a normal result whose horizontal-motion signal sits on the upper edge
C1_Witness ==
    /\ NormalResult
    /\ stdout[1].horizontalMotionSignal = 10000
    /\ stdout[1].highMotionShortClipSignal > 0
    /\ stdout[1].portraitSignal > 5000

(* C2: the emitted motionPeaks has at most 6 entries and, as emitted (after *)
(* rounding to 2 decimals), no two distinct entries differ by less than    *)
(* 4.5 seconds.                                                            *)
C2_PeaksSeparated ==
    \A r \in 1..Len(stdout) :
        LET peaks == stdout[r].motionPeaks
        IN  /\ Len(peaks) <= 6
            /\ \A i, j \in 1..Len(peaks) :
                   i # j => Abs(peaks[i] - peaks[j]) >= 450

(* C3: when the path is missing, the import fails, the stream does not     *)
(* open, the metadata is non-positive or a full pass decodes nothing, the  *)
(* result is exactly the fallback payload, sampleStride 0 included.        *)
C3_FallbackExact ==
    (Done /\ (\/ ~env.exists
              \/ ~env.importable
              \/ ~env.opens
              \/ env.frame_count <= 0
              \/ env.width <= 0
              \/ env.height <= 0
              \/ \A i \in 1..Len(visited) : ~visited[i].ok))
    => stdout = <<[sampledFrames |-> 0, sampleStride |-> 0,
                   portraitSignal |-> 5000, landscapeSignal |-> 5000,
                   centeredFaceVerticalSignal |-> 0,
                   horizontalMotionSignal |-> 0,
                   highMotionShortClipSignal |-> 0, motionPeaks |-> <<>>]>>

\* a full pass of several visits, all failing, after a stride was computed
C3_Witness ==
    /\ Done
    /\ sample_stride > 1
    /\ Len(visited) >= 3
    /\ \A i \in 1..Len(visited) : ~visited[i].ok

\* what is left to do: the return, the loop exit, the indices not yet passed
Remaining ==
    IF Done THEN 0
    ELSE IF pc = "scan" THEN 1 + Max(0, total_frames - frame_index)
    ELSE 2 + Max(0, total_frames)

C5_HandleReleased == (Done /\ cap # "none") => cap = "released"

(* C6 as stated: for every sampleRatio, 0 included, the stride used is     *)
(* max(1, N div max(1, floor(N * clamp(ratio, 0.01, 0.5)))), it is the     *)
(* sampleStride of a normal result, and the visits are 0, stride, ...      *)
C6_StrideForEveryRatio ==
    ScanStarted =>
        /\ sample_stride =
               Max(1, total_frames \div
                      Max(1, (total_frames * clamp(sample_ratio_arg, 1, 50))
                             \div 100))
        /\ \A i \in 1..Len(visited) :
               visited[i].index = (i - 1) * sample_stride
        /\ NormalResult => stdout[1].sampleStride = sample_stride

(* C6 amended: a sampleRatio of exactly 0 is replaced by the default 0.1   *)
(* before clamping; for every other ratio the stride is as stated, and the *)
(* scan visits exactly 0, stride, 2*stride, ... below totalFrames.         *)
C6_StrideWithDefault ==
    ScanStarted =>
        LET ratio == IF sample_ratio_arg = 0 THEN 10 ELSE sample_ratio_arg
            stride == Max(1, total_frames \div
                             Max(1, (total_frames * clamp(ratio, 1, 50))
                                    \div 100))
        IN  /\ sample_stride = stride
            /\ \A i \in 1..Len(visited) : visited[i].index = (i - 1) * stride
            /\ frame_index = Len(visited) * stride
            /\ Done => /\ Len(visited) * stride >= total_frames
                       /\ (Len(visited) - 1) * stride < total_frames
            /\ NormalResult => stdout[1].sampleStride = stride

\* the 300-frame scan at ratio 0.1: stride 10, indices 0..290, 30 visits
C6_Witness ==
    /\ Done
    /\ total_frames = 300
    /\ sample_ratio_arg = 10
    /\ sample_stride = 10
    /\ Len(visited) = 30
    /\ visited[30].index = 290

(* C7: for totalFrames > 0 and ratio in [0.01, 0.5], sampleCount >= 1 and  *)
(* stride >= 1, and the loop generates at most totalFrames/stride + 1      *)
(* indices; sampledFrames stays within the same bound.                     *)
C7_VisitsBounded ==
    (ScanStarted /\ 1 <= sample_ratio_arg /\ sample_ratio_arg <= 50) =>
        /\ sample_count >= 1
        /\ sample_stride >= 1
        /\ Len(visited) <= total_frames \div sample_stride + 1
        /\ sampled_frames <= total_frames \div sample_stride + 1

\* a finished scan that generated exactly totalFrames/stride + 1 indices
C7_Witness ==
    /\ Done
    /\ ScanStarted
    /\ 1 <= sample_ratio_arg /\ sample_ratio_arg <= 50
    /\ sample_stride >= 2
    /\ Len(visited) = total_frames \div sample_stride + 1

(* C8 as stated: when every sampled frame has motion value 0, the result   *)
(* has highMotionShortClipSignal 0.0 and an empty motionPeaks.             *)
C8_StaticNoPeaks ==
    (NormalResult /\ AllZero(motion_values)) =>
        /\ stdout[1].highMotionShortClipSignal = 0
        /\ stdout[1].motionPeaks = <<>>

(* C8 amended: when every sampled frame has motion value 0, no value is    *)
(* above the threshold, so highMotionShortClipSignal is 0.0; every value   *)
(* equals the threshold and is a peak candidate, so motionPeaks is not     *)
(* empty and starts with the first sampled frame's rounded timestamp.      *)
C8_StaticFirstPeak ==
    (NormalResult /\ AllZero(motion_values)) =>
        /\ stdout[1].highMotionShortClipSignal = 0
        /\ Len(stdout[1].motionPeaks) >= 1
        /\ stdout[1].motionPeaks[1] =
               Round2([n |-> DecodedVisits[1].index,
                       d |-> motion_timestamps[1].d])

\* the static 100-frame source, every visit decoded, several peaks
C8_Witness ==
    /\ NormalResult
    /\ total_frames = 100
    /\ \A i \in 1..Len(visited) : visited[i].ok
    /\ AllZero(motion_values)
    /\ Len(stdout[1].motionPeaks) >= 2

(* C9: a decode failure advances frame_index by the stride and changes     *)
(* neither sampledFrames, nor a score total, nor the motion series; the    *)
(* scan goes on, and the final sampledFrames is the number of visits that  *)
(* decoded.                                                                *)
C9_FailureSkipsIndex ==
    /\ [][(Len(visited') = Len(visited) + 1 /\ ~visited'[Len(visited')].ok)
          => /\ frame_index' = frame_index + sample_stride
             /\ sampled_frames' = sampled_frames
             /\ portrait_score_total' = portrait_score_total
             /\ landscape_score_total' = landscape_score_total
             /\ centered_face_total' = centered_face_total
             /\ horizontal_motion_total' = horizontal_motion_total
             /\ motion_values' = motion_values
             /\ motion_timestamps' = motion_timestamps
             /\ pc' = "scan"]_vars
    /\ []((Done /\ ScanStarted) =>
              /\ Len(stdout) = 1
              /\ stdout[1].sampledFrames = Len(DecodedVisits))

\* a finished scan with a failure between two decoded visits
C9_Witness ==
    /\ NormalResult
    /\ \E i, j, k \in 1..Len(visited) :
           i < j /\ j < k /\ visited[i].ok /\ ~visited[j].ok /\ visited[k].ok
    /\ stdout[1].sampledFrames < Len(visited)

(* C10 as stated: the two motion series have length sampledFrames, the     *)
(* k-th entries belong to the k-th decoded frame, the timestamp is that    *)
(* frame's index divided by the fps the source reports, the first motion   *)
(* value is 0 and the timestamps increase strictly.                        *)
C10_TimestampByReportedFps ==
    /\ Len(motion_values) = sampled_frames
    /\ Len(motion_timestamps) = sampled_frames
    /\ Len(DecodedVisits) = sampled_frames
    /\ \A k \in 1..Len(motion_timestamps) :
           /\ motion_timestamps[k].n = DecodedVisits[k].index
           /\ motion_timestamps[k].n * env.fps =
                  DecodedVisits[k].index * motion_timestamps[k].d
    /\ Len(motion_values) >= 1 => motion_values[1] = 0
    /\ \A k \in 1..(Len(motion_timestamps) - 1) :
           motion_timestamps[k].n * motion_timestamps[k + 1].d
               < motion_timestamps[k + 1].n * motion_timestamps[k].d

(* C10 amended: as stated, except that the timestamp is the frame's index  *)
(* divided by max(1.0, fps), where a reported fps of 0 counts as 30.0.     *)
C10_TimestampByGuardedFps ==
    /\ Len(motion_values) = sampled_frames
    /\ Len(motion_timestamps) = sampled_frames
    /\ Len(DecodedVisits) = sampled_frames
    /\ \A k \in 1..Len(motion_timestamps) :
           /\ motion_timestamps[k].n = DecodedVisits[k].index
           /\ motion_timestamps[k].d =
                  Max(1, IF env.fps = 0 THEN 30 ELSE env.fps)
    /\ Len(motion_values) >= 1 => motion_values[1] = 0
    /\ \A k \in 1..(Len(motion_timestamps) - 1) :
           motion_timestamps[k].n * motion_timestamps[k + 1].d
               < motion_timestamps[k + 1].n * motion_timestamps[k].d

\* a scan of a source reporting fps 0 with a failure before two samples
C10_Witness ==
    /\ pc = "scan"
    /\ env.fps = 0
    /\ sampled_frames >= 2
    /\ ~visited[1].ok
    /\ motion_values[2] > 0

(* C11: motionPeaks is the output of the reference greedy procedure: the   *)
(* candidates are the sampled frames with value >= mean + 0.75 * std, in   *)
(* order of value descending, equal values in temporal order; a candidate  *)
(* is accepted iff the walk reaches it before 6 are accepted and it is not *)
(* within 4.5 s of an accepted one; the peaks are emitted in acceptance    *)
(* order, so by non-increasing value, and every rejected candidate         *)
(* examined lies within 4.5 s of an accepted peak of greater or equal      *)
(* value.                                                                  *)
C11_GreedyReference ==
    NormalResult =>
        /\ {SampleAt(peak_pairs[k].ts) : k \in 1..Len(peak_pairs)} = Candidates
        /\ \A k \in 1..Len(peak_pairs) :
               peak_pairs[k].score = motion_values[SampleAt(peak_pairs[k].ts)]
        /\ \A k, l \in 1..Len(peak_pairs) :
               k < l =>
                   \/ peak_pairs[k].score > peak_pairs[l].score
                   \/ /\ peak_pairs[k].score = peak_pairs[l].score
                      /\ SampleAt(peak_pairs[k].ts) < SampleAt(peak_pairs[l].ts)
        /\ \A k \in 1..Len(peak_pairs) :
               Accepted(k) <=>
                   /\ Examined(k)
                   /\ \A j \in 1..(k - 1) :
                          Accepted(j) =>
                              ~WithinPeakGap(peak_pairs[k].ts, peak_pairs[j].ts)
        /\ Len(unique_peaks) =
               Cardinality({k \in 1..Len(peak_pairs) : Accepted(k)})
        /\ \A a, b \in 1..Len(unique_peaks) :
               a < b =>
                   \E k, l \in 1..Len(peak_pairs) :
                       /\ k < l
                       /\ peak_pairs[k].ts = unique_peaks[a]
                       /\ peak_pairs[l].ts = unique_peaks[b]
        /\ Len(stdout[1].motionPeaks) = Len(unique_peaks)
        /\ Len(unique_peaks) <= 6
        /\ \A a \in 1..Len(unique_peaks) :
               stdout[1].motionPeaks[a] = Round2(unique_peaks[a])
        /\ \A a, b \in 1..Len(unique_peaks) :
               a < b => motion_values[SampleAt(unique_peaks[a])]
                            >= motion_values[SampleAt(unique_peaks[b])]
        /\ \A k \in 1..Len(peak_pairs) :
               (Examined(k) /\ ~Accepted(k)) =>
                   \E j \in 1..(k - 1) :
                       /\ Accepted(j)
                       /\ WithinPeakGap(peak_pairs[k].ts, peak_pairs[j].ts)
                       /\ peak_pairs[j].score >= peak_pairs[k].score

\* two candidates of different values: the later, stronger one is walked
\* first and emitted, the earlier, weaker one lies too close and is rejected
C11_Witness ==
    /\ NormalResult
    /\ Len(peak_pairs) = 2
    /\ peak_pairs[1].score > peak_pairs[2].score
    /\ peak_pairs[1].ts.n > peak_pairs[2].ts.n
    /\ Accepted(1)
    /\ ~Accepted(2)
    /\ Len(stdout[1].motionPeaks) = 1

\* sum over the first k sampled frames of
\* 0.38 + 0.26 * centerDensity + 0.14 * avg(topDensity, bottomDensity)
RECURSIVE C12_TermSum(_)
C12_TermSum(k) ==
    IF k = 0 THEN 0
    ELSE 3800 + 1300 * SampledFrames[k].center
              + 350 * (SampledFrames[k].top + SampledFrames[k].bottom)
         + C12_TermSum(k - 1)

RECURSIVE C13_BandSum(_)
C13_BandSum(k) ==
    IF k <= 1 THEN 0 ELSE SampledFrames[k].band + C13_BandSum(k - 1)

(* C13: under any pattern of decode failures, the first decoded frame      *)
(* records motion value 0, adds nothing to the horizontal-motion sum and   *)
(* becomes the retained frame; a failed index leaves the retained frame    *)
(* as it is; every later decoded frame is diffed against the most recent   *)
(* decoded frame and adds exactly one term; so at the end of a scan with   *)
(* sampledFrames >= 1 the sum has sampledFrames - 1 terms and is divided   *)
(* by max(1, sampledFrames - 1).                                           *)
C13_MotionAgainstLastDecoded ==
    /\ [][Len(visited') = Len(visited) + 1 =>
             LET visit == visited'[Len(visited')]
             IN  IF ~visit.ok
                 THEN /\ prev_gray' = prev_gray
                      /\ horizontal_motion_total' = horizontal_motion_total
                      /\ motion_values' = motion_values
                 ELSE /\ prev_gray' = <<visit.index>>
                      /\ Len(motion_values') = Len(motion_values) + 1
                      /\ IF Len(DecodedVisits) = 0
                         THEN /\ prev_gray = <<>>
                              /\ motion_values'[Len(motion_values')] = 0
                              /\ horizontal_motion_total' =
                                     horizontal_motion_total
                         ELSE /\ prev_gray =
                                     <<DecodedVisits[Len(DecodedVisits)].index>>
                              /\ motion_values'[Len(motion_values')] =
                                     visit.frame.motion
                              /\ horizontal_motion_total' =
                                     horizontal_motion_total + visit.frame.band
        ]_vars
    /\ [](NormalResult =>
              /\ sampled_frames = Len(DecodedVisits)
              /\ horizontal_motion_total = C13_BandSum(sampled_frames)
              /\ stdout[1].horizontalMotionSignal \in
                     Round4(clamp(2500 * horizontal_motion_total, 0,
                                  10000 * Max(1, sampled_frames - 1)),
                            Max(1, sampled_frames - 1)))

\* a finished scan: a failure before the first decoded frame, another
\* between decoded frames, and moving frames after it
C13_Witness ==
    /\ NormalResult
    /\ sampled_frames >= 3
    /\ ~visited[1].ok
    /\ \E i, j, k \in 1..Len(visited) :
           /\ i < j /\ j < k
           /\ visited[i].ok /\ ~visited[j].ok /\ visited[k].ok
           /\ visited[i].frame.band > 0
           /\ visited[k].frame.band > 0
    /\ horizontal_motion_total > 0
    /\ stdout[1].horizontalMotionSignal > 0

(* C14: in every non-fallback result, highMotionShortClipSignal > 0        *)
(* implies that motionPeaks is not empty; and whenever some sampled value  *)
(* is >= the threshold, motionPeaks is not empty and its first entry is    *)
(* the rounded timestamp of the earliest sampled frame attaining the       *)
(* maximum motion value.                                                   *)
C14_TopPeakIsEarliestMax ==
    NormalResult =>
        /\ stdout[1].highMotionShortClipSignal > 0 =>
               Len(stdout[1].motionPeaks) >= 1
        /\ Candidates # {} =>
               /\ Len(stdout[1].motionPeaks) >= 1
               /\ stdout[1].motionPeaks[1] =
                      Round2(motion_timestamps[EarliestMax])

\* a result with a positive high-motion signal whose maximum is attained
\* by two sampled frames, the earlier of which is not the first sample
C14_Witness ==
    /\ NormalResult
    /\ stdout[1].highMotionShortClipSignal > 0
    /\ EarliestMax > 1
    /\ \E j \in (EarliestMax + 1)..Len(motion_values) :
           motion_values[j] = motion_values[EarliestMax]
    /\ Len(stdout[1].motionPeaks) >= 1
    /\ stdout[1].motionPeaks[1] > 0


\* --segments-json yields no valid segment: parse_segments returns []
NoValidSegment ==
    /\ ~ParseRaises(job.segments_json)
    /\ parse_segments(job.segments_json, job.duration) = <<>>

(* C15: in the MoviePy pipeline, for an existing input with positive       *)
(* duration, when --segments-json yields no valid segment (malformed JSON, *)
(* a non-list, an empty list, or segments all shorter than 0.35 s after    *)
(* clamping), the pipeline falls back to one default segment from 0 to     *)
(* min(duration, 20) seconds, renders it and reports ok = true with        *)
(* exactly one clip path; and in vertical mode the number of rendered      *)
(* clips never exceeds 3.                                                  *)
C15_FallbackRendersOneClip ==
    /\ (/\ Done
        /\ job.exists /\ job.importable /\ job.opens /\ job.writes
        /\ job.duration > 0
        /\ NoValidSegment)
       => /\ Len(segments) = 1
          /\ segments[1].first = 0
          /\ segments[1].second = Min(job.duration, 20000)
          /\ Len(built_clips) = 1
          /\ Len(stdout) = 1
          /\ stdout[1].ok
          /\ Len(stdout[1].clipPaths) = 1
    /\ job.mode = "vertical" =>
           /\ Len(built_clips) <= 3
           /\ Len(clip_paths) <= 3
           /\ \A i \in 1..Len(stdout) : Len(stdout[i].clipPaths) <= 3

====
